---- MODULE Spec2Model ----
(***************************************************************************)
(* A model of minictr (src/main.go): a launcher process that re-executes   *)
(* itself as an initializer inside fresh namespaces, optionally caps the   *)
(* child's memory through a cgroup-v1 directory, waits for the child and   *)
(* propagates its exit status.                                             *)
(*                                                                         *)
(* Two processes are modelled, each with a program counter:                *)
(*   the launcher    (lpc), main() in runtime mode, lines 34-108;          *)
(*   the initializer (ipc), containerInit() and its helpers, which after   *)
(*                   a successful exec becomes the user's command.         *)
(* The binary can also be started directly with the "init" argument        *)
(* (main, line 27); then only the initializer exists.                      *)
(* Every system call is one step whose outcome (success or failure) is     *)
(* chosen nondeterministically.  Strings the code inspects character by    *)
(* character (the memory limit) are sequences of one-character strings.    *)
(***************************************************************************)
EXTENDS Integers, Sequences, FiniteSets, TLC

(***************************************************************************)
(* Bounds of the model.                                                    *)
(***************************************************************************)
\* longest user command (program + arguments) the model enumerates
MaxCmdLen == 2
\* number of distinct process ids the kernel may hand to the child
MaxPids == 1

(***************************************************************************)
(* Program constants.                                                      *)
(***************************************************************************)
\* log.Fatal / log.Fatalf end the process with os.Exit(1)
FatalStatus == 1
\* an unrecovered Go runtime panic ends the process with status 2
PanicStatus == 2
\* exit statuses are the low 8 bits of the value given to exit
StatusModulus == 256
\* (*ProcessState).ExitCode of a process that was killed by a signal
SignaledExitCode == -1
\* lexit of a process that has not terminated
NoExit == -2
\* childPid before cmd.Start
NoPid == 0

\* Cloneflags with the IPC flag forgotten
Cloneflags_NoIpc ==
    {"CLONE_NEWUTS", "CLONE_NEWPID", "CLONE_NEWNS", "CLONE_NEWNET"}

\* the five namespace flags put in SysProcAttr.Cloneflags
Cloneflags ==
    {"CLONE_NEWUTS", "CLONE_NEWPID", "CLONE_NEWNS", "CLONE_NEWNET", "CLONE_NEWIPC"}

\* namespace flags of a process somebody started directly from a host shell
HostFlags == {}

\* the "init" marker of os.Args[1]
Sentinel == "init"

(***************************************************************************)
(* Characters and strings.                                                 *)
(***************************************************************************)
Digits == {"0", "1", "2", "3", "4", "5", "6", "7", "8", "9"}

DigitVal ==
    [c \in Digits |->
        CASE c = "0" -> 0 [] c = "1" -> 1 [] c = "2" -> 2 [] c = "3" -> 3
          [] c = "4" -> 4 [] c = "5" -> 5 [] c = "6" -> 6 [] c = "7" -> 7
          [] c = "8" -> 8 [] c = "9" -> 9]

DigitChar ==
    [n \in 0..9 |->
        CASE n = 0 -> "0" [] n = 1 -> "1" [] n = 2 -> "2" [] n = 3 -> "3"
          [] n = 4 -> "4" [] n = 5 -> "5" [] n = 6 -> "6" [] n = 7 -> "7"
          [] n = 8 -> "8" [] n = 9 -> "9"]

\* the white space strings.TrimSpace removes (the members the model uses)
Space == {" ", "\t"}

RECURSIVE TrimLeft(_)
TrimLeft(s) ==
    IF s = <<>> THEN s
    ELSE IF Head(s) \in Space THEN TrimLeft(Tail(s)) ELSE s

RECURSIVE TrimRight(_)
TrimRight(s) ==
    IF s = <<>> THEN s
    ELSE IF s[Len(s)] \in Space THEN TrimRight(SubSeq(s, 1, Len(s) - 1)) ELSE s

\* strings.TrimSpace
TrimSpace(s) == TrimRight(TrimLeft(s))

(***************************************************************************)
(* 64-bit integers.  A magnitude is a sequence of limbs in radix 1024,     *)
(* least significant first and without leading zero limbs (<<>> is 0); an  *)
(* int64 is a sign and a magnitude, zero having the sign FALSE.            *)
(***************************************************************************)
\* the radix of the limbs: the factor between two successive units
LimbBase == 1024

Zero64 == [neg |-> FALSE, mag |-> <<>>]

\* the limbs of a small natural number
RECURSIVE LimbsOf(_)
LimbsOf(n) ==
    IF n = 0 THEN <<>> ELSE <<n % LimbBase>> \o LimbsOf(n \div LimbBase)

\* a small integer as an int64
Int64Of(n) ==
    IF n < 0 THEN [neg |-> TRUE, mag |-> LimbsOf(0 - n)]
    ELSE [neg |-> FALSE, mag |-> LimbsOf(n)]

\* drop the leading zero limbs
RECURSIVE Norm(_)
Norm(m) ==
    IF m = <<>> THEN m
    ELSE IF m[Len(m)] = 0 THEN Norm(SubSeq(m, 1, Len(m) - 1)) ELSE m

\* m * c + carry for small c and carry
RECURSIVE MulAdd(_, _, _)
MulAdd(m, c, carry) ==
    IF m = <<>>
    THEN IF carry = 0 THEN <<>>
         ELSE <<carry % LimbBase>> \o MulAdd(<<>>, c, carry \div LimbBase)
    ELSE LET x == Head(m) * c + carry
         IN  <<x % LimbBase>> \o MulAdd(Tail(m), c, x \div LimbBase)

\* the quotient (not normalised) and the remainder of m / d for small d,
\* rem being the remainder carried in from the limbs above
RECURSIVE DivSmall(_, _, _)
DivSmall(m, d, rem) ==
    IF m = <<>> THEN [q |-> <<>>, r |-> rem]
    ELSE LET cur  == rem * LimbBase + m[Len(m)]
             rest == DivSmall(SubSeq(m, 1, Len(m) - 1), d, cur % d)
         IN  [q |-> Append(rest.q, cur \div d), r |-> rest.r]

\* a <= b for magnitudes
\* a <= b for limb sequences of equal length, most significant limb first
RECURSIVE LimbsLE(_, _)
LimbsLE(a, b) ==
    IF a = <<>> THEN TRUE
    ELSE IF a[Len(a)] # b[Len(b)] THEN a[Len(a)] < b[Len(b)]
    ELSE LimbsLE(SubSeq(a, 1, Len(a) - 1), SubSeq(b, 1, Len(b) - 1))

\* a <= b for magnitudes
MagLE(a, b) == IF Len(a) # Len(b) THEN Len(a) < Len(b) ELSE LimbsLE(a, b)

\* pad a magnitude with zero limbs to n limbs
RECURSIVE Pad(_, _)
Pad(m, n) == IF Len(m) >= n THEN m ELSE Pad(Append(m, 0), n)

\* a - b limb by limb for a >= b of equal length (not normalised)
RECURSIVE SubLimbs(_, _, _)
SubLimbs(a, b, borrow) ==
    IF a = <<>> THEN <<>>
    ELSE LET x == Head(a) - Head(b) - borrow
         IN  IF x < 0
             THEN <<x + LimbBase>> \o SubLimbs(Tail(a), Tail(b), 1)
             ELSE <<x>> \o SubLimbs(Tail(a), Tail(b), 0)

\* a - b for magnitudes with a >= b
SubMag(a, b) ==
    LET n == IF Len(a) > Len(b) THEN Len(a) ELSE Len(b)
    IN  Norm(SubLimbs(Pad(a, n), Pad(b, n), 0))

\* 2^63 and 2^64: bit 3 and bit 4 of the seventh limb
Pow63 == <<0, 0, 0, 0, 0, 0, 8>>
Pow64 == <<0, 0, 0, 0, 0, 0, 16>>

\* the number of limbs that hold 64 bits, and what the last one may hold
Limbs64 == 7
TopLimbRange == 16

\* m mod 2^64
Trunc64(m) ==
    LET p == SubSeq(Pad(m, Limbs64), 1, Limbs64)
    IN  Norm([p EXCEPT ![Limbs64] = p[Limbs64] % TopLimbRange])

\* the int64 a sign and magnitude wrap around to (two's complement)
Wrap64(neg, m) ==
    LET t == Trunc64(m)
    IN  IF t = <<>> THEN Zero64
        ELSE IF neg
        THEN IF MagLE(t, Pow63) THEN [neg |-> TRUE, mag |-> t]
             ELSE [neg |-> FALSE, mag |-> SubMag(Pow64, t)]
        ELSE IF MagLE(Pow63, t) THEN [neg |-> TRUE, mag |-> SubMag(Pow64, t)]
             ELSE [neg |-> FALSE, mag |-> t]

\* m * mult for a multiplier that is a power of 1024
RECURSIVE MulMag(_, _)
MulMag(m, mult) ==
    IF mult = 1 THEN m ELSE MulMag(MulAdd(m, LimbBase, 0), mult \div LimbBase)

\* the Go expression a * mult on int64: the product modulo 2^64
Mul64(a, mult) == Wrap64(a.neg, MulMag(a.mag, mult))

\* magnitude of a sequence of decimal digits
RECURSIVE DecVal(_)
DecVal(ds) ==
    IF ds = <<>> THEN <<>>
    ELSE MulAdd(DecVal(SubSeq(ds, 1, Len(ds) - 1)), 10, DigitVal[ds[Len(ds)]])

\* strconv.ParseInt(s, 10, 64): optional sign, then one or more digits; a
\* value outside [-2^63, 2^63 - 1] is a range error
ParseInt(s) ==
    LET signed == s # <<>> /\ Head(s) \in {"+", "-"}
        body   == IF signed THEN Tail(s) ELSE s
        minus  == signed /\ Head(s) = "-"
    IN  IF body = <<>> \/ \E i \in 1..Len(body) : body[i] \notin Digits
        THEN [ok |-> FALSE, val |-> Zero64, err |-> "syntax"]
        ELSE LET m == DecVal(body)
             IN  IF (minus /\ ~MagLE(m, Pow63)) \/ (~minus /\ MagLE(Pow63, m))
                 THEN [ok |-> FALSE, val |-> Zero64, err |-> "range"]
                 ELSE [ok |-> TRUE, val |-> [neg |-> minus /\ m # <<>>, mag |-> m],
                       err |-> ""]

\* decimal digits of a small natural number
RECURSIVE NatDigits(_)
NatDigits(n) ==
    IF n < 10 THEN <<DigitChar[n]>>
    ELSE Append(NatDigits(n \div 10), DigitChar[n % 10])

\* strconv.Itoa(n) and the %d of fmt.Sprintf for a process id
Itoa(n) == IF n < 0 THEN <<"-">> \o NatDigits(0 - n) ELSE NatDigits(n)

\* decimal digits of a magnitude, <<>> for 0
RECURSIVE MagDigits(_)
MagDigits(m) ==
    IF m = <<>> THEN <<>>
    ELSE LET d == DivSmall(m, 10, 0)
         IN  Append(MagDigits(Norm(d.q)), DigitChar[d.r])

\* strconv.FormatInt(v, 10) of an int64
FormatInt(v) ==
    IF v.mag = <<>> THEN <<"0">>
    ELSE (IF v.neg THEN <<"-">> ELSE <<>>) \o MagDigits(v.mag)

(***************************************************************************)
(* parseMemLimit (lines 236-266).  kind is "ok" (bytes is the result),     *)
(* "error" (err names the error) or "panic" (the index expression of line  *)
(* 241 is out of range because the trimmed string is empty).               *)
(***************************************************************************)
ParseError(e) == [kind |-> "error", bytes |-> Zero64, err |-> e]

\* the switch of lines 244-259: multiplier and numeric prefix
UnitOf(t) ==
    LET unit == t[Len(t)]
        cut  == SubSeq(t, 1, Len(t) - 1)
    IN  CASE unit \in {"k", "K"} -> [mult |-> 1024, rest |-> cut, bad |-> FALSE]
          [] unit \in {"m", "M"} -> [mult |-> 1024 * 1024, rest |-> cut, bad |-> FALSE]
          [] unit \in {"g", "G"} -> [mult |-> 1024 * 1024 * 1024, rest |-> cut, bad |-> FALSE]
          [] OTHER -> [mult |-> 1, rest |-> t, bad |-> unit \notin Digits]

parseMemLimit(s) ==
    IF s = <<>> THEN ParseError("empty memory limit")
    ELSE LET t == TrimSpace(s)
         IN  IF t = <<>> THEN [kind |-> "panic", bytes |-> Zero64, err |-> "index out of range"]
             ELSE LET u    == UnitOf(t)
                      base == ParseInt(u.rest)
                  IN  IF u.bad THEN ParseError("invalid memory limit suffix")
                      ELSE IF ~base.ok THEN ParseError("parse integer")
                      ELSE [kind |-> "ok", bytes |-> Mul64(base.val, u.mult), err |-> ""]

(***************************************************************************)
(* Environments: sequences of <<name, value>> entries.                     *)
(***************************************************************************)
HasKey(env, k) == \E i \in 1..Len(env) : env[i][1] = k

\* os.Getenv: the value of the first entry named k, "" when there is none
Getenv(env, k) ==
    IF HasKey(env, k)
    THEN env[CHOOSE i \in 1..Len(env) :
                 env[i][1] = k /\ \A j \in 1..(i - 1) : env[j][1] # k][2]
    ELSE ""

\* os/exec removes duplicate names from cmd.Env, the last entry winning
RECURSIVE DedupEnv(_)
DedupEnv(env) ==
    IF env = <<>> THEN <<>>
    ELSE IF HasKey(Tail(env), Head(env)[1]) THEN DedupEnv(Tail(env))
         ELSE <<Head(env)>> \o DedupEnv(Tail(env))

\* ChildEnv with the three entries put in front of the inherited ones
ChildEnv_ParentLast(penv, r, m, h) ==
    DedupEnv(<< <<"ROOTFS", r>>, <<"MEMLIMIT", m>>, <<"HOSTNAME", h>> >> \o penv)

\* cmd.Env of lines 62-66
ChildEnv(penv, r, m, h) ==
    DedupEnv(penv \o << <<"ROOTFS", r>>, <<"MEMLIMIT", m>>, <<"HOSTNAME", h>> >>)

\* ChildArgs with the first element of the command lost
ChildArgs_DropFirst(self, remaining) == <<self, Sentinel>> \o Tail(remaining)

\* childArgs of line 55 behind the resolved executable: the child's os.Args
ChildArgs(self, remaining) == <<self, Sentinel>> \o remaining

(***************************************************************************)
(* Inputs the model enumerates.                                            *)
(***************************************************************************)
RootfsInputs == {"", "/rfs", "rfs"}

\* the rootfs values that are relative paths (filepath.IsAbs is false)
RelativePaths == {"rfs"}

HostnameInputs == {"", "mini-container"}

\* --mem values: none, valid, unknown suffix, white space only, padded,
\* negative, zero
MemInputs ==
    { <<>>,
      <<"1", "0", "0", "m">>,
      <<"1", "0", "0", "x">>,
      <<" ">>,
      <<" ", "2", "k", " ">>,
      <<"-", "1", "k">>,
      <<"0">> }

\* longest string the parser is tried on exhaustively
MaxMemLen == 3

\* the characters of those strings
ParserAlphabet == {" ", "-", "+", "0", "1", "9", "k", "M", "g", "x"}

RECURSIVE StringsUpTo(_, _)
StringsUpTo(A, n) ==
    IF n = 0 THEN {<<>>}
    ELSE LET shorter == StringsUpTo(A, n - 1)
         IN  shorter \cup {Append(q, c) : q \in shorter, c \in A}

\* longer strings: the examples of the documentation, values around the
\* ends of the int64 range, products that leave it
LongInputs ==
    { <<"1", "0", "0", "m">>,
      <<"1", "g">>,
      <<"5", "1", "2", "k">>,
      <<"2", "0", "4", "8">>,
      <<"1", "0", "0", "x">>,
      <<"a", "b", "c">>,
      <<"9", "0", "0", "7", "1", "9", "9", "2", "5", "4", "7", "4", "0", "9", "9", "2", "g">>,
      <<"8", "5", "8", "9", "9", "3", "4", "5", "9", "2", "g">>,
      <<"9", "2", "2", "3", "3", "7", "2", "0", "3", "6", "8", "5", "4", "7", "7", "5", "8", "0", "7">>,
      <<"9", "2", "2", "3", "3", "7", "2", "0", "3", "6", "8", "5", "4", "7", "7", "5", "8", "0", "8">>,
      <<"-", "9", "2", "2", "3", "3", "7", "2", "0", "3", "6", "8", "5", "4", "7", "7", "5", "8", "0", "8">>,
      <<"-", "9", "2", "2", "3", "3", "7", "2", "0", "3", "6", "8", "5", "4", "7", "7", "5", "8", "0", "9">>,
      <<"9", "2", "2", "3", "3", "7", "2", "0", "3", "6", "8", "5", "4", "7", "7", "5", "8", "0", "7", "k">>,
      <<"8", "7", "9", "6", "0", "9", "3", "0", "2", "2", "2", "0", "7", "m">>,
      <<"8", "7", "9", "6", "0", "9", "3", "0", "2", "2", "2", "0", "8", "m">>,
      <<"-", "8", "7", "9", "6", "0", "9", "3", "0", "2", "2", "2", "0", "8", "m">>,
      <<" ", " ", "6", "4", "m", "\t">>,
      <<"+", "5", "1", "2", "K">>,
      <<"1", "_", "0", "0", "0">>,
      <<"1", "2", " ", "k">> }

\* the strings parseMemLimit is tried on by itself
ParserInputs == StringsUpTo(ParserAlphabet, MaxMemLen) \cup LongInputs

\* the user's commands: the non-empty prefixes of this one, and no command
UserCommand == <<"/bin/sh", "-c", "exit 7", "--">>

CommandInputs ==
    {SubSeq(UserCommand, 1, n) : n \in 0..MaxCmdLen}

\* environments the launcher may inherit
ParentEnvs ==
    { <<>>,
      << <<"ROOTFS", "/host">>, <<"HOSTNAME", "devbox">> >> }

\* environments of a process started directly in initializer mode
DirectEnvs == ParentEnvs \cup { << <<"ROOTFS", "">> >> }

\* process ids cmd.Start may report
ChildPids == {1000 + i : i \in 1..MaxPids}

\* exit codes the user's command may end with
ExitCodes == {0, 7, 255}

SelfPath == "/usr/bin/minictr"

(***************************************************************************)
(* State.                                                                  *)
(***************************************************************************)
VARIABLES
    mode,       \* "run": main in runtime mode; "init": started with the sentinel
    rootfs,     \* --rootfs
    memLimit,   \* --mem, a sequence of characters
    hostname,   \* --hostname
    command,    \* runCmd.Args()
    parentEnv,  \* os.Environ() of the top-level process
    lpc,        \* position of the launcher
    lexit,      \* exit status of the launcher, NoExit while it runs
    lpath,      \* how the launcher ended: "return", "propagate", "fatal", "panic"
    llog,       \* operations the launcher has performed, in order
    waits,      \* number of cmd.Wait calls
    limitBytes, \* the byte count parseMemLimit returned
    parsed,     \* what the last call of parseMemLimit returned
    childPid,   \* cmd.Process.Pid
    cflags,     \* namespace flags the initializer process was created with
    cargs,      \* os.Args of the initializer process
    cenv,       \* environment of the initializer process
    ipc,        \* position of the initializer
    ilog,       \* operations the initializer has performed, in order
    istatus,    \* wait status of the initializer process
    ns,         \* what the initializer has changed in its namespaces
    cg          \* the cgroup directory mini_<pid> and its two control files

lvars == <<lpc, lexit, lpath, llog, waits, limitBytes, parsed, childPid, cg>>
ivars == <<ipc, ilog, istatus, ns>>
cfgvars == <<mode, rootfs, memLimit, hostname, command, parentEnv>>
procvars == <<cflags, cargs, cenv>>
vars == <<cfgvars, lvars, procvars, ivars>>

Op(name, ok) == [op |-> name, ok |-> ok]

NoStatus == [kind |-> "none", code |-> 0]
Running == [kind |-> "running", code |-> 0]
Exited(c) == [kind |-> "exited", code |-> c]
Signaled == [kind |-> "signaled", code |-> 0]

NsInit ==
    [hostname |-> "", private |-> FALSE, putOld |-> FALSE, bind |-> FALSE,
     pivoted |-> FALSE, cwd |-> "old", oldMounted |-> FALSE,
     procDir |-> FALSE, procMounted |-> FALSE, lo |-> FALSE, image |-> <<>>]

\* dir, limit, procs: what this run created and wrote; stale: Mkdir found
\* the directory of an earlier run
CgInit == [dir |-> <<>>, limit |-> <<>>, procs |-> <<>>, stale |-> FALSE]

\* parsed before parseMemLimit has returned
NotParsed == [kind |-> "none", bytes |-> Zero64, err |-> ""]

InitRun ==
    /\ mode = "run"
    /\ rootfs \in RootfsInputs
    /\ memLimit \in MemInputs
    /\ hostname \in HostnameInputs
    /\ command \in CommandInputs
    /\ parentEnv \in ParentEnvs
    /\ lpc = "checkRootfs"
    /\ cflags = {} /\ cargs = <<>> /\ cenv = <<>>
    /\ ipc = "none" /\ istatus = NoStatus

\* the binary started by hand as "minictr init [command...]"
InitDirect ==
    /\ mode = "init"
    /\ rootfs = "" /\ memLimit = <<>> /\ hostname = "" /\ command = <<>>
    /\ parentEnv \in DirectEnvs
    /\ lpc = "none"
    /\ cflags = HostFlags
    /\ cargs \in {<<SelfPath, Sentinel>> \o c : c \in CommandInputs}
    /\ cenv = parentEnv
    /\ ipc = "getenv" /\ istatus = Running

Init ==
    /\ InitRun \/ InitDirect
    /\ lexit = NoExit /\ lpath = "none" /\ llog = <<>> /\ waits = 0
    /\ limitBytes = Zero64 /\ parsed = NotParsed /\ childPid = NoPid
    /\ ilog = <<>> /\ ns = NsInit /\ cg = CgInit

(***************************************************************************)
(* The launcher: main() in runtime mode.                                   *)
(***************************************************************************)
\* os.Exit(code): the status the parent of the launcher observes
ExitStatus(code) == code % StatusModulus

\* the launcher process ends
LEnd(status, path) ==
    /\ lpc' = "exited"
    /\ lexit' = status
    /\ lpath' = path

\* log.Fatal, log.Fatalf
LFatal == LEnd(FatalStatus, "fatal")

\* lines 41-43
LCheckRootfs ==
    /\ lpc = "checkRootfs"
    /\ IF rootfs = ""
       THEN LFatal
       ELSE lpc' = "checkCommand" /\ UNCHANGED <<lexit, lpath>>
    /\ UNCHANGED <<llog, waits, limitBytes, parsed, childPid, cg>>
    /\ UNCHANGED <<cfgvars, procvars, ivars>>

\* LCheckCommand without the test of line 45
LCheckCommand_Skip ==
    /\ lpc = "checkCommand"
    /\ lpc' = "lookPath"
    /\ UNCHANGED <<lexit, lpath, llog, waits, limitBytes, parsed, childPid, cg>>
    /\ UNCHANGED <<cfgvars, procvars, ivars>>

\* lines 44-47
LCheckCommand ==
    /\ lpc = "checkCommand"
    /\ IF Len(command) = 0
       THEN LFatal
       ELSE lpc' = "lookPath" /\ UNCHANGED <<lexit, lpath>>
    /\ UNCHANGED <<llog, waits, limitBytes, parsed, childPid, cg>>
    /\ UNCHANGED <<cfgvars, procvars, ivars>>

\* LLookPath followed by the memory limit, before the child is started
LLookPath_LimitFirst ==
    /\ lpc = "lookPath"
    /\ \E ok \in BOOLEAN :
          IF ok
          THEN lpc' = "memCheck" /\ UNCHANGED <<lexit, lpath>>
          ELSE LEnd(FatalStatus, "fatal")
    /\ UNCHANGED <<llog, waits, limitBytes, parsed, childPid, cg>>
    /\ UNCHANGED <<cfgvars, procvars, ivars>>

\* lines 49-52: exec.LookPath(os.Args[0])
LLookPath ==
    /\ lpc = "lookPath"
    /\ \E ok \in BOOLEAN :
          IF ok
          THEN lpc' = "start" /\ UNCHANGED <<lexit, lpath>>
          ELSE LFatal
    /\ UNCHANGED <<llog, waits, limitBytes, parsed, childPid, cg>>
    /\ UNCHANGED <<cfgvars, procvars, ivars>>

\* lines 55-85: build the command and cmd.Start() it; the child exists from
\* here on, created with Cloneflags, and runs main() in initializer mode
LStart ==
    /\ lpc = "start"
    /\ \/ /\ LFatal
          /\ llog' = Append(llog, Op("start", FALSE))
          /\ UNCHANGED <<childPid, procvars, ivars>>
       \/ /\ \E pid \in ChildPids : childPid' = pid
          /\ lpc' = "memCheck"
          /\ llog' = Append(llog, Op("start", TRUE))
          /\ cflags' = Cloneflags
          /\ cargs' = ChildArgs(SelfPath, command)
          /\ cenv' = ChildEnv(parentEnv, rootfs, memLimit, hostname)
          /\ ipc' = "getenv"
          /\ istatus' = Running
          /\ UNCHANGED <<lexit, lpath, ilog, ns>>
    /\ UNCHANGED <<waits, limitBytes, parsed, cg, cfgvars>>

\* line 88
LMemCheck ==
    /\ lpc = "memCheck"
    /\ lpc' = IF memLimit # <<>> THEN "parse" ELSE "wait"
    /\ UNCHANGED <<lexit, lpath, llog, waits, limitBytes, parsed, childPid, cg>>
    /\ UNCHANGED <<cfgvars, procvars, ivars>>

\* LParse with the limiter called whether or not parsing failed
LParse_IgnoreError ==
    /\ lpc = "parse"
    /\ LET r == parseMemLimit(memLimit)
       IN  /\ lpc' = "stat"
           /\ llog' = Append(llog, Op("parse", r.kind = "ok"))
           /\ limitBytes' = r.bytes
           /\ parsed' = r
    /\ UNCHANGED <<lexit, lpath, waits, childPid, cg>>
    /\ UNCHANGED <<cfgvars, procvars, ivars>>

\* lines 89-92: parseMemLimit(*memLimit); an error is a warning, a panic of
\* parseMemLimit is not recovered anywhere and ends the launcher
LParse ==
    /\ lpc = "parse"
    /\ LET r == parseMemLimit(memLimit)
       IN  CASE r.kind = "panic" ->
                  /\ LEnd(PanicStatus, "panic")
                  /\ llog' = Append(llog, Op("parse", FALSE))
                  /\ UNCHANGED <<limitBytes, parsed>>
             [] r.kind = "error" ->
                  /\ lpc' = "wait"
                  /\ llog' = Append(llog, Op("parse", FALSE))
                  /\ parsed' = r
                  /\ UNCHANGED <<lexit, lpath, limitBytes>>
             [] r.kind = "ok" ->
                  /\ lpc' = "stat"
                  /\ llog' = Append(llog, Op("parse", TRUE))
                  /\ limitBytes' = r.bytes
                  /\ parsed' = r
                  /\ UNCHANGED <<lexit, lpath>>
    /\ UNCHANGED <<waits, childPid, cg>>
    /\ UNCHANGED <<cfgvars, procvars, ivars>>

\* a step of applyMemoryCgroupLimit: on success go to the next step, on
\* failure return the error to main, which logs a warning and goes to Wait
LimiterStep(name, ok, next) ==
    /\ lpc' = IF ok THEN next ELSE "wait"
    /\ llog' = Append(llog, Op(name, ok))
    /\ UNCHANGED <<lexit, lpath, waits, limitBytes, parsed, childPid>>
    /\ UNCHANGED <<cfgvars, procvars, ivars>>

\* line 277: the directory of the child's cgroup
CgroupPath(pid) == <<"/sys/fs/cgroup/memory/mini_">> \o Itoa(pid)

\* lines 272-275: os.Stat(cgroupBase)
LStat ==
    /\ lpc = "stat"
    /\ \E ok \in BOOLEAN : LimiterStep("stat", ok, "mkdir")
    /\ UNCHANGED cg

\* lines 277-280: os.Mkdir(cgroupPath); it fails when a directory of that
\* name is left from an earlier run ("exists"), or for another reason
LMkdir ==
    /\ lpc = "mkdir"
    /\ \E res \in {"ok", "exists", "error"} :
          /\ LimiterStep("mkdir", res = "ok", "writeLimit")
          /\ cg' = CASE res = "ok" -> [cg EXCEPT !.dir = CgroupPath(childPid)]
                     [] res = "exists" -> [cg EXCEPT !.stale = TRUE]
                     [] OTHER -> cg

\* LWriteLimit with the error of the write dropped
LWriteLimit_IgnoreError ==
    /\ lpc = "writeLimit"
    /\ \E ok \in BOOLEAN :
          /\ lpc' = "writeProcs"
          /\ llog' = Append(llog, Op("writeLimit", ok))
          /\ cg' = IF ok THEN [cg EXCEPT !.limit = FormatInt(limitBytes)] ELSE cg
    /\ UNCHANGED <<lexit, lpath, waits, limitBytes, parsed, childPid>>
    /\ UNCHANGED <<cfgvars, procvars, ivars>>

\* lines 282-285: write memory.limit_in_bytes
LWriteLimit ==
    /\ lpc = "writeLimit"
    /\ \E ok \in BOOLEAN :
          /\ LimiterStep("writeLimit", ok, "writeProcs")
          /\ cg' = IF ok THEN [cg EXCEPT !.limit = FormatInt(limitBytes)] ELSE cg

\* LWriteProcs that removes the cgroup again when the write fails
LWriteProcs_Rollback ==
    /\ lpc = "writeProcs"
    /\ \E ok \in BOOLEAN :
          /\ LimiterStep("writeProcs", ok, "wait")
          /\ cg' = IF ok THEN [cg EXCEPT !.procs = Itoa(childPid)] ELSE CgInit

\* lines 287-292: write cgroup.procs, then return to main (lines 93-97)
LWriteProcs ==
    /\ lpc = "writeProcs"
    /\ \E ok \in BOOLEAN :
          /\ LimiterStep("writeProcs", ok, "wait")
          /\ cg' = IF ok THEN [cg EXCEPT !.procs = Itoa(childPid)] ELSE cg

\* lines 102-107 for a wait status: nil when the child exited 0, otherwise an
\* *exec.ExitError (also for a child killed by a signal, whose ExitCode() is
\* -1) that is handed to os.Exit
AfterWait(st) ==
    CASE st.kind = "exited" /\ st.code = 0 ->
            [status |-> 0, path |-> "return"]
      [] st.kind = "exited" /\ st.code # 0 ->
            [status |-> ExitStatus(st.code), path |-> "propagate"]
      [] st.kind = "signaled" ->
            [status |-> ExitStatus(SignaledExitCode), path |-> "propagate"]

\* line 102: cmd.Wait() blocks until the child has terminated
LWait ==
    /\ lpc = "wait"
    /\ istatus.kind \in {"exited", "signaled"}
    /\ waits' = waits + 1
    /\ llog' = Append(llog, Op("wait", TRUE))
    /\ LEnd(AfterWait(istatus).status, AfterWait(istatus).path)
    /\ UNCHANGED <<limitBytes, parsed, childPid, cg>>
    /\ UNCHANGED <<cfgvars, procvars, ivars>>

\* lines 102, 106: the wait itself fails with an error that is no ExitError
LWaitFail ==
    /\ lpc = "wait"
    /\ waits' = waits + 1
    /\ llog' = Append(llog, Op("wait", FALSE))
    /\ LFatal
    /\ UNCHANGED <<limitBytes, parsed, childPid, cg>>
    /\ UNCHANGED <<cfgvars, procvars, ivars>>

Launcher ==
    \/ LCheckRootfs \/ LCheckCommand \/ LLookPath \/ LStart \/ LMemCheck
    \/ LParse \/ LStat \/ LMkdir \/ LWriteLimit \/ LWriteProcs
    \/ LWait \/ LWaitFail

(***************************************************************************)
(* The initializer: containerInit() and its helpers, run by main() when    *)
(* os.Args[1] is the sentinel (lines 27-32).                               *)
(***************************************************************************)
\* containerInit returns an error: main calls log.Fatalf (line 29)
IFail ==
    /\ ipc' = "dead"
    /\ istatus' = Exited(FatalStatus)

\* a mandatory step: performed, then either the next step or the error path
IStep(name, ok, next, newns) ==
    /\ ilog' = Append(ilog, Op(name, ok))
    /\ IF ok
       THEN ipc' = next /\ ns' = newns /\ UNCHANGED istatus
       ELSE IFail /\ UNCHANGED ns
    /\ UNCHANGED <<cfgvars, lvars, procvars>>

\* a step whose failure is only logged
ISoftStep(name, ok, next, newns) ==
    /\ ilog' = Append(ilog, Op(name, ok))
    /\ ipc' = next
    /\ ns' = IF ok THEN newns ELSE ns
    /\ UNCHANGED <<istatus, cfgvars, lvars, procvars>>

\* IGetenv without the test of line 114
IGetenv_NoCheck ==
    /\ ipc = "getenv"
    /\ ipc' = "sethostname"
    /\ UNCHANGED <<istatus, ilog, ns, cfgvars, lvars, procvars>>

\* lines 113-118
IGetenv ==
    /\ ipc = "getenv"
    /\ IF Getenv(cenv, "ROOTFS") = ""
       THEN IFail
       ELSE ipc' = "sethostname" /\ UNCHANGED istatus
    /\ UNCHANGED <<ilog, ns, cfgvars, lvars, procvars>>

\* lines 121-125
ISetHostname ==
    /\ ipc = "sethostname"
    /\ LET h == Getenv(cenv, "HOSTNAME")
       IN  IF h # ""
           THEN \E ok \in BOOLEAN :
                   IStep("sethostname", ok, "mountPrivate", [ns EXCEPT !.hostname = h])
           ELSE /\ ipc' = "mountPrivate"
                /\ UNCHANGED <<ilog, ns, istatus, cfgvars, lvars, procvars>>

\* lines 128-130: mount("", "/", "", MS_PRIVATE|MS_REC, "")
IMountPrivate ==
    /\ ipc = "mountPrivate"
    /\ \E ok \in BOOLEAN :
          IStep("mountPrivate", ok, "abs", [ns EXCEPT !.private = TRUE])

\* lines 165-168: filepath.Abs fails only for a relative path (os.Getwd)
IAbs ==
    /\ ipc = "abs"
    /\ \E ok \in BOOLEAN :
          /\ ok \/ Getenv(cenv, "ROOTFS") \in RelativePaths
          /\ IStep("abs", ok, "mkdirPutOld", ns)

\* lines 170-173: os.MkdirAll(putOld)
IMkdirPutOld ==
    /\ ipc = "mkdirPutOld"
    /\ \E ok \in BOOLEAN :
          IStep("mkdirPutOld", ok, "bindMount", [ns EXCEPT !.putOld = TRUE])

\* lines 176-178: mount(absRoot, absRoot, "", MS_BIND|MS_REC, "")
IBindMount ==
    /\ ipc = "bindMount"
    /\ \E ok \in BOOLEAN :
          IStep("bindMount", ok, "pivotRoot", [ns EXCEPT !.bind = TRUE])

\* lines 181-183: pivot_root(absRoot, putOld); the old root is now mounted
\* on the retained subdirectory
IPivotRoot ==
    /\ ipc = "pivotRoot"
    /\ \E ok \in BOOLEAN :
          IStep("pivotRoot", ok, "chdir",
                [ns EXCEPT !.pivoted = TRUE, !.oldMounted = TRUE])

\* IChdir with the error of chdir dropped
IChdir_IgnoreError ==
    /\ ipc = "chdir"
    /\ \E ok \in BOOLEAN :
          ISoftStep("chdir", ok, "unmountOld", [ns EXCEPT !.cwd = "new"])

\* lines 186-188
IChdir ==
    /\ ipc = "chdir"
    /\ \E ok \in BOOLEAN :
          IStep("chdir", ok, "unmountOld", [ns EXCEPT !.cwd = "new"])

\* lines 191-194: unmount("/.pivot_root", MNT_DETACH)
IUnmountOld ==
    /\ ipc = "unmountOld"
    /\ \E ok \in BOOLEAN :
          IStep("unmountOld", ok, "removePutOld", [ns EXCEPT !.oldMounted = FALSE])

\* IRemovePutOld that reports success and leaves the directory
IRemovePutOld_Keep ==
    /\ ipc = "removePutOld"
    /\ \E ok \in BOOLEAN : IStep("removePutOld", ok, "mkdirProc", ns)

\* lines 197-201: os.RemoveAll("/.pivot_root"), then pivotRoot returns nil
IRemovePutOld ==
    /\ ipc = "removePutOld"
    /\ \E ok \in BOOLEAN :
          IStep("removePutOld", ok, "mkdirProc", [ns EXCEPT !.putOld = FALSE])

\* lines 207-209: os.MkdirAll("/proc")
IMkdirProc ==
    /\ ipc = "mkdirProc"
    /\ \E ok \in BOOLEAN :
          IStep("mkdirProc", ok, "mountProc", [ns EXCEPT !.procDir = TRUE])

\* IMountProc with the error of the mount only logged
IMountProc_IgnoreError ==
    /\ ipc = "mountProc"
    /\ \E ok \in BOOLEAN :
          ISoftStep("mountProc", ok, "lookIp", [ns EXCEPT !.procMounted = TRUE])

\* lines 211-214: mount("proc", "/proc", "proc", 0, "")
IMountProc ==
    /\ ipc = "mountProc"
    /\ \E ok \in BOOLEAN :
          IStep("mountProc", ok, "lookIp", [ns EXCEPT !.procMounted = TRUE])

\* lines 220-221: exec.LookPath("ip")
ILookIp ==
    /\ ipc = "lookIp"
    /\ \E found \in BOOLEAN :
          ISoftStep("lookIp", found, IF found THEN "runIp" ELSE "lookIfconfig", ns)

\* lines 223-226: exec.LookPath("ifconfig")
ILookIfconfig ==
    /\ ipc = "lookIfconfig"
    /\ \E found \in BOOLEAN :
          ISoftStep("lookIfconfig", found,
                    IF found THEN "runIfconfig" ELSE "checkArgs", ns)

\* lines 227-228: ifconfig lo up; an error is logged at lines 143-145
IRunIfconfig ==
    /\ ipc = "runIfconfig"
    /\ \E ok \in BOOLEAN :
          ISoftStep("runIfconfig", ok, "checkArgs", [ns EXCEPT !.lo = TRUE])

\* IRunIp whose failure is fatal
IRunIp_Fatal ==
    /\ ipc = "runIp"
    /\ \E ok \in BOOLEAN :
          IStep("runIp", ok, "checkArgs", [ns EXCEPT !.lo = TRUE])

\* lines 231-232: ip link set lo up; an error is logged at lines 143-145
IRunIp ==
    /\ ipc = "runIp"
    /\ \E ok \in BOOLEAN :
          ISoftStep("runIp", ok, "checkArgs", [ns EXCEPT !.lo = TRUE])

\* lines 151-153
ICheckArgs ==
    /\ ipc = "checkArgs"
    /\ IF Len(cargs) < 3
       THEN IFail
       ELSE ipc' = "exec" /\ UNCHANGED istatus
    /\ UNCHANGED <<ilog, ns, cfgvars, lvars, procvars>>

\* lines 154-158: syscall.Exec(os.Args[2], os.Args[2:], os.Environ())
IExec ==
    /\ ipc = "exec"
    /\ \E ok \in BOOLEAN :
          IStep("exec", ok, "user",
                [ns EXCEPT !.image = SubSeq(cargs, 3, Len(cargs))])

\* the user's command ends by itself
UserExit ==
    /\ ipc = "user"
    /\ \E c \in ExitCodes : istatus' = Exited(c)
    /\ ipc' = "dead"
    /\ UNCHANGED <<ilog, ns, cfgvars, lvars, procvars>>

\* the user's command is killed by a signal
UserKilled ==
    /\ ipc = "user"
    /\ istatus' = Signaled
    /\ ipc' = "dead"
    /\ UNCHANGED <<ilog, ns, cfgvars, lvars, procvars>>

Initializer ==
    \/ IGetenv \/ ISetHostname \/ IMountPrivate
    \/ IAbs \/ IMkdirPutOld \/ IBindMount \/ IPivotRoot \/ IChdir
    \/ IUnmountOld \/ IRemovePutOld
    \/ IMkdirProc \/ IMountProc
    \/ ILookIp \/ ILookIfconfig \/ IRunIfconfig \/ IRunIp
    \/ ICheckArgs \/ IExec \/ UserExit \/ UserKilled

Next == Launcher \/ Initializer

Spec == Init /\ [][Next]_vars

(***************************************************************************)
(* parseMemLimit by itself: a caller hands it one string and keeps what    *)
(* it returns; kind "panic" stands for the call that never returns.        *)
(***************************************************************************)
ParserInit ==
    /\ mode = "parse"
    /\ memLimit \in ParserInputs
    /\ rootfs = "" /\ hostname = "" /\ command = <<>> /\ parentEnv = <<>>
    /\ lpc = "none" /\ lexit = NoExit /\ lpath = "none" /\ llog = <<>>
    /\ waits = 0 /\ limitBytes = Zero64 /\ parsed = NotParsed
    /\ childPid = NoPid /\ cg = CgInit
    /\ cflags = {} /\ cargs = <<>> /\ cenv = <<>>
    /\ ipc = "none" /\ ilog = <<>> /\ istatus = NoStatus /\ ns = NsInit

\* lines 236-266, one call
CallParse ==
    /\ mode = "parse"
    /\ parsed = NotParsed
    /\ parsed' = parseMemLimit(memLimit)
    /\ UNCHANGED <<lpc, lexit, lpath, llog, waits, limitBytes, childPid, cg>>
    /\ UNCHANGED <<cfgvars, procvars, ivars>>

ParserNext == CallParse

ParserSpec == ParserInit /\ [][ParserNext]_vars

TypeOK ==
    /\ mode \in {"run", "init"}
    /\ lexit \in {NoExit} \cup 0..(StatusModulus - 1)
    /\ waits \in 0..1
    /\ childPid \in {NoPid} \cup ChildPids
    /\ istatus.kind \in {"none", "running", "exited", "signaled"}

(***************************************************************************)
(* Vocabulary of the properties.                                           *)
(***************************************************************************)
Did(log, name) == \E i \in 1..Len(log) : log[i].op = name
Has(log, e) == \E i \in 1..Len(log) : log[i] = e
Before(log, e, i) == \E j \in 1..(i - 1) : log[j] = e

\* the wait operation itself failed
WaitFailed == Has(llog, Op("wait", FALSE))

\* the launcher has created its child
ChildStarted == mode = "run" /\ childPid # NoPid

\* the seven steps of the pivot sequence, in the documented order
PivotSteps ==
    <<"abs", "mkdirPutOld", "bindMount", "pivotRoot", "chdir", "unmountOld",
      "removePutOld">>

PivotOps == {PivotSteps[i] : i \in 1..Len(PivotSteps)}

IsPivotOp(e) == e.op \in PivotOps

\* the pivot steps the initializer has performed
PivotLog == SelectSeq(ilog, IsPivotOp)

\* the steps whose failure is fatal for the initializer
MandatoryOps == {"sethostname", "mountPrivate", "mkdirProc", "mountProc", "exec"} \cup PivotOps

\* the mandatory steps that precede the image replacement, in order
SetupSteps(h) ==
    (IF h # "" THEN <<"sethostname">> ELSE <<>>)
        \o <<"mountPrivate">> \o PivotSteps \o <<"mkdirProc", "mountProc">>

IsSetupOp(e) == e.op \in MandatoryOps \ {"exec"}

\* the five isolation flags: UTS, PID, mount, network, IPC
FiveFlags ==
    {"CLONE_NEWUTS", "CLONE_NEWPID", "CLONE_NEWNS", "CLONE_NEWNET", "CLONE_NEWIPC"}

\* the steps of the initializer that change the namespaces it runs in
IsolationSensitiveOps == {"sethostname", "mountPrivate", "mkdirProc", "mountProc"} \cup PivotOps

(***************************************************************************)
(* C1.  A child that was started and exits normally with code c makes the  *)
(* launcher terminate with exit code c, whatever happened while the memory *)
(* limit was parsed or applied.  (The wait is assumed not to fail.)        *)
(* Violated: a memory limit of white space only makes parseMemLimit panic  *)
(* and the launcher ends with the status of a panic.                       *)
(***************************************************************************)
C1_ExitCodeEqualsChildCode ==
    (ChildStarted /\ lpc = "exited" /\ istatus.kind = "exited" /\ ~WaitFailed)
        => lexit = istatus.code

(***************************************************************************)
(* C2.  When the wait does not end in a normal exit (the child was killed  *)
(* by a signal, or the wait failed) the launcher takes the fatal path and  *)
(* never the exit-code-propagation path.                                   *)
(* Violated: a signalled child yields an ExitError too, and the launcher   *)
(* calls os.Exit(-1).                                                      *)
(***************************************************************************)
C2_AbnormalWaitIsFatal ==
    (lpc = "exited" /\ waits = 1 /\ (WaitFailed \/ istatus.kind = "signaled"))
        => lpath = "fatal"

(***************************************************************************)
(* C3.  With an empty rootfs or an empty command the launcher ends fatally *)
(* with a non-zero status; no child is created, no cgroup directory is     *)
(* created and no wait is performed.                                       *)
(***************************************************************************)
C3_EmptyConfigRejected ==
    (mode = "run" /\ (rootfs = "" \/ command = <<>>)) =>
        /\ lpc \in {"checkRootfs", "checkCommand", "exited"}
        /\ lpc = "exited" => (lpath = "fatal" /\ lexit # 0)
        /\ childPid = NoPid /\ ipc = "none" /\ istatus = NoStatus
        /\ ~Did(llog, "start")
        /\ cg.dir = <<>> /\ ~Did(llog, "mkdir")
        /\ waits = 0

C3_Witness ==
    mode = "run" /\ rootfs # "" /\ command = <<>> /\ lpc = "exited"

(***************************************************************************)
(* C4.  The child's pid is written to the membership file only after the   *)
(* limit has been written successfully to the limit file of the same       *)
(* cgroup: the process is never a member while the limit is unwritten.     *)
(***************************************************************************)
C4_LimitBeforeMembership ==
    /\ cg.procs # <<>> => (cg.dir # <<>> /\ cg.limit # <<>>)
    /\ \A i \in 1..Len(llog) :
          llog[i].op = "writeProcs" => Before(llog, Op("writeLimit", TRUE), i)

C4_Witness ==
    cg.procs = Itoa(childPid) /\ cg.limit = <<"1", "0", "4", "8", "5", "7", "6", "0", "0">>

(***************************************************************************)
(* C5.  Without a memory-limit string no cgroup directory is created and   *)
(* no control file is written; a cgroup directory is created only after a  *)
(* non-empty memory-limit string has been parsed successfully.             *)
(***************************************************************************)
C5_NoLimitNoCgroup ==
    /\ memLimit = <<>> =>
          /\ cg = CgInit
          /\ \A i \in 1..Len(llog) : llog[i].op \in {"start", "wait"}
    /\ \A i \in 1..Len(llog) :
          llog[i].op = "mkdir" =>
              /\ memLimit # <<>>
              /\ Before(llog, Op("parse", TRUE), i)
    /\ cg.dir # <<>> => Has(llog, Op("mkdir", TRUE))

C5_Witness ==
    ChildStarted /\ memLimit = <<>> /\ lpc = "exited" /\ lpath = "return"

(***************************************************************************)
(* C6.  Once the child is started, for every memory-limit string and every *)
(* outcome of the limiter the launcher performs exactly one wait and does  *)
(* not terminate before the child has terminated.  (The wait is assumed    *)
(* not to fail.)                                                           *)
(* Violated: a memory limit of white space only makes parseMemLimit panic; *)
(* the launcher ends without waiting while the child still runs.           *)
(***************************************************************************)
C6_AlwaysOneWait ==
    (ChildStarted /\ lpc = "exited" /\ ~WaitFailed) =>
        /\ waits = 1
        /\ istatus.kind \in {"exited", "signaled"}

(***************************************************************************)
(* C7.  An initializer that finds ROOTFS unset or empty fails at once: no  *)
(* hostname change, mount, unmount, pivot, directory creation, loopback    *)
(* tool or image replacement is performed.                                 *)
(***************************************************************************)
C7_MissingRootfsNoMutation ==
    (ipc # "none" /\ Getenv(cenv, "ROOTFS") = "") =>
        /\ ipc \in {"getenv", "dead"}
        /\ ilog = <<>>
        /\ ns = NsInit
        /\ ipc = "dead" => istatus = Exited(FatalStatus)

C7_Witness ==
    ipc = "dead" /\ Getenv(cenv, "ROOTFS") = "" /\ Len(cargs) >= 3

(***************************************************************************)
(* C8.  The pivot sequence runs abs, mkdir of the retained subdirectory,   *)
(* recursive bind mount, root swap, chdir, detached unmount, removal, in   *)
(* this order; a step runs only if every earlier one succeeded and the     *)
(* first failing step ends the sequence with an error.                     *)
(***************************************************************************)
C8_PivotOrder ==
    /\ Len(PivotLog) <= Len(PivotSteps)
    /\ \A i \in 1..Len(PivotLog) :
          /\ PivotLog[i].op = PivotSteps[i]
          /\ i < Len(PivotLog) => PivotLog[i].ok
    /\ \A i \in 1..Len(ilog) :
          (IsPivotOp(ilog[i]) /\ ~ilog[i].ok) =>
              /\ i = Len(ilog)
              /\ ipc = "dead" /\ istatus = Exited(FatalStatus)
    /\ (Did(ilog, "mkdirProc") \/ ipc = "mkdirProc") =>
          /\ Len(PivotLog) = Len(PivotSteps)
          /\ PivotLog[Len(PivotSteps)].ok

C8_Witness ==
    /\ Len(PivotLog) = 6
    /\ PivotLog[6] = Op("unmountOld", FALSE)
    /\ ipc = "dead"

RefMultiplier(c) ==
    CASE c \in {"k", "K"} -> 1024
      [] c \in {"m", "M"} -> 1024 * 1024
      [] c \in {"g", "G"} -> 1024 * 1024 * 1024
      [] OTHER -> 1

RefIsUnit(c) == c \in {"k", "K", "m", "M", "g", "G"}

\* the numeric prefix the description selects
RefPrefix(t) ==
    IF t # <<>> /\ RefIsUnit(t[Len(t)]) THEN SubSeq(t, 1, Len(t) - 1) ELSE t

\* the multiplier the description selects
RefMult(t) == IF t = <<>> THEN 1 ELSE RefMultiplier(t[Len(t)])

\* the final character is neither a unit nor a digit
RefBadSuffix(t) == t # <<>> /\ ~RefIsUnit(t[Len(t)]) /\ t[Len(t)] \notin Digits

\* p is an optional sign followed by digits, and its value fits in 64 bits
RefIsInt64(p) ==
    LET body == IF p # <<>> /\ p[1] \in {"+", "-"} THEN Tail(p) ELSE p
    IN  /\ body # <<>>
        /\ \A i \in 1..Len(body) : body[i] \in Digits
        /\ IF p[1] = "-" THEN MagLE(DecVal(body), Pow63)
           ELSE ~MagLE(Pow63, DecVal(body))

\* the value of such a prefix
RefValue(p) ==
    LET body == IF p[1] \in {"+", "-"} THEN Tail(p) ELSE p
    IN  [neg |-> p[1] = "-" /\ DecVal(body) # <<>>, mag |-> DecVal(body)]

\* "ok", or the error the description names
RefOutcome(s) ==
    LET t == TrimSpace(s)
    IN  IF s = <<>> THEN "empty memory limit"
        ELSE IF RefBadSuffix(t) THEN "invalid memory limit suffix"
        ELSE IF ~RefIsInt64(RefPrefix(t)) THEN "parse integer"
        ELSE "ok"

\* the mathematical product of the prefix and the multiplier
RefProduct(s) ==
    LET t == TrimSpace(s)
        v == RefValue(RefPrefix(t))
    IN  [neg |-> v.neg, mag |-> MulMag(v.mag, RefMult(t))]

\* parseMemLimit has returned (or panicked) in the parser specification
ParserDone == mode = "parse" /\ parsed # NotParsed

(***************************************************************************)
(* C11.  For every non-empty input parseMemLimit agrees with the           *)
(* documented parser: same outcome (value, invalid-suffix error or parse   *)
(* error), same multiplier applied to the same prefix; "100m" gives        *)
(* 104857600, "1g" 1073741824, "512k" 524288, "2048" 2048, "100x" and      *)
(* "abc" give errors.                                                      *)
(* Violated: for a string of white space only parseMemLimit panics instead *)
(* of returning the error of an empty prefix.                              *)
(***************************************************************************)
C11_AgreesWithReference ==
    (ParserDone /\ memLimit # <<>>) =>
        /\ parsed.kind = (IF RefOutcome(memLimit) = "ok" THEN "ok" ELSE "error")
        /\ parsed.kind = "error" => parsed.err = RefOutcome(memLimit)
        /\ parsed.kind = "ok" =>
              parsed.bytes = Mul64(RefValue(RefPrefix(TrimSpace(memLimit))),
                                   RefMult(TrimSpace(memLimit)))
        /\ memLimit = <<"1", "0", "0", "m">> => parsed.bytes = Int64Of(104857600)
        /\ memLimit = <<"1", "g">> => parsed.bytes = Int64Of(1073741824)
        /\ memLimit = <<"5", "1", "2", "k">> => parsed.bytes = Int64Of(524288)
        /\ memLimit = <<"2", "0", "4", "8">> => parsed.bytes = Int64Of(2048)
        /\ memLimit \in {<<"1", "0", "0", "x">>, <<"a", "b", "c">>} => parsed.kind = "error"

(***************************************************************************)
(* C12.  For every string parseMemLimit accepts, the byte count returned   *)
(* is exactly the mathematical product of the numeric prefix and the unit  *)
(* multiplier, also for a large prefix with the k, m or g multiplier.      *)
(* Violated: base * mult is an int64 multiplication and wraps around.      *)
(***************************************************************************)
C12_ExactProduct ==
    (ParserDone /\ parsed.kind = "ok") => parsed.bytes = RefProduct(memLimit)

(***************************************************************************)
(* C13.  parseMemLimit returns an error for every input that is empty,     *)
(* also when it is empty only after trimming, and for every input it       *)
(* returns a byte count or an error: it never aborts the caller.           *)
(* Violated: white space only passes the test of line 237 and the index    *)
(* expression of line 241 panics.                                          *)
(***************************************************************************)
C13_EmptyIsErrorNeverAborts ==
    ParserDone =>
        /\ parsed.kind \in {"ok", "error"}
        /\ TrimSpace(memLimit) = <<>> => parsed.kind = "error"

\* C11 and C12 away from the two defects: strings with something left after
\* trimming agree with the documented parser, and the byte count is the
\* product reduced modulo 2^64
ParserAgreesWhereDefined ==
    (ParserDone /\ TrimSpace(memLimit) # <<>>) =>
        /\ parsed.kind = (IF RefOutcome(memLimit) = "ok" THEN "ok" ELSE "error")
        /\ parsed.kind = "error" => parsed.err = RefOutcome(memLimit)
        /\ parsed.kind = "ok" =>
              LET exact == RefProduct(memLimit)
              IN  parsed.bytes = Wrap64(exact.neg, exact.mag)

(***************************************************************************)
(* Vocabulary of the loopback, hand-over and limiter properties.           *)
(***************************************************************************)
\* the steps of setupLoopback, and those that invoke a tool
LoopOps == {"lookIp", "lookIfconfig", "runIp", "runIfconfig"}
ToolOps == {"runIp", "runIfconfig"}

\* setupLoopback has returned
LoopbackOver ==
    /\ Did(ilog, "lookIp")
    /\ ipc \notin {"lookIfconfig", "runIp", "runIfconfig"}

\* the initializer ended with "no command provided" (line 152): it died
\* right after setupLoopback, whose steps never end it
NoCommandError ==
    /\ ipc = "dead"
    /\ ilog # <<>>
    /\ ilog[Len(ilog)].op \in LoopOps

\* the steps of applyMemoryCgroupLimit, and what the launcher does for the
\* memory limit
LimiterOps == {"stat", "mkdir", "writeLimit", "writeProcs"}
LimitOps == {"parse"} \cup LimiterOps

\* the limiter step that failed, if any
LimiterFailedAt(name) == Has(llog, Op(name, FALSE))

(***************************************************************************)
(* C14.  Loopback bring-up is best-effort: whatever its outcome the        *)
(* initializer goes on to the last step, the image replacement (which is   *)
(* attempted whenever a command was handed over); ifconfig is invoked only *)
(* when ip is unavailable, and at most one tool is invoked.                *)
(***************************************************************************)
C14_LoopbackBestEffort ==
    /\ LoopbackOver =>
          /\ ipc \in {"checkArgs", "exec", "user", "dead"}
          /\ (Len(cargs) >= 3 /\ ipc \in {"user", "dead"}) => Did(ilog, "exec")
          /\ (Len(cargs) < 3 /\ ipc = "dead") => NoCommandError
    /\ \A i \in 1..Len(ilog) :
          /\ ilog[i].op = "lookIfconfig" => Before(ilog, Op("lookIp", FALSE), i)
          /\ ilog[i].op = "runIfconfig" =>
                /\ Before(ilog, Op("lookIp", FALSE), i)
                /\ Before(ilog, Op("lookIfconfig", TRUE), i)
          /\ ilog[i].op = "runIp" => Before(ilog, Op("lookIp", TRUE), i)
    /\ Cardinality({i \in 1..Len(ilog) : ilog[i].op \in ToolOps}) <= 1

C14_Witness ==
    /\ Has(ilog, Op("lookIp", FALSE))
    /\ Has(ilog, Op("runIfconfig", FALSE))
    /\ ~ns.lo
    /\ ns.image # <<>>

(***************************************************************************)
(* C15.  The child's argument vector is the sentinel followed by the       *)
(* launcher's command unchanged; the initializer hands exactly that        *)
(* command to the image replacement (first element as the program); a      *)
(* child of the launcher never reaches "no command provided".              *)
(***************************************************************************)
C15_CommandHandedOver ==
    ChildStarted =>
        /\ command # <<>>
        /\ Len(cargs) = Len(command) + 2
        /\ cargs[2] = Sentinel
        /\ SubSeq(cargs, 3, Len(cargs)) = command
        /\ cargs[3] = command[1]
        /\ ns.image # <<>> => (ns.image = command /\ ns.image[1] = command[1])
        /\ Did(ilog, "exec") => SubSeq(cargs, 3, Len(cargs)) = command
        /\ ~NoCommandError

C15_Witness ==
    ChildStarted /\ Len(command) = 2 /\ ns.image = command

(***************************************************************************)
(* C16.  The rootfs, raw memory limit and hostname the initializer of a    *)
(* launcher's child reads are the launcher's values, also when the         *)
(* inherited environment defines the same names; the rootfs read is never  *)
(* empty, and an empty rootfs is never replaced by a default.              *)
(***************************************************************************)
C16_EnvironmentHandedOver ==
    /\ ChildStarted =>
          /\ Getenv(cenv, "ROOTFS") = rootfs
          /\ Getenv(cenv, "ROOTFS") # ""
          /\ Getenv(cenv, "MEMLIMIT") = memLimit
          /\ Getenv(cenv, "HOSTNAME") = hostname
          /\ ns.hostname \in {"", hostname}
          /\ \A k \in {"ROOTFS", "MEMLIMIT", "HOSTNAME"} :
                Cardinality({i \in 1..Len(cenv) : cenv[i][1] = k}) = 1
    /\ (ipc # "none" /\ Getenv(cenv, "ROOTFS") = "") =>
          (~ns.pivoted /\ ~ns.bind /\ ~Did(ilog, "abs"))

C16_Witness ==
    /\ ChildStarted
    /\ Getenv(parentEnv, "ROOTFS") = "/host" /\ rootfs = "/rfs"
    /\ Getenv(parentEnv, "HOSTNAME") = "devbox" /\ hostname = "mini-container"
    /\ ns.hostname = "mini-container"
    /\ ns.pivoted

(***************************************************************************)
(* C17.  applyMemoryCgroupLimit stops at its first failing operation and   *)
(* undoes nothing: base absent, nothing created; Mkdir fails (also because *)
(* the directory exists already), no control file written; limit write     *)
(* fails, directory stays and membership is not written; membership write  *)
(* fails, directory and limit stay.                                        *)
(***************************************************************************)
C17_LimiterStopsNoRollback ==
    /\ \A i \in 1..Len(llog) :
          (llog[i].op \in LimiterOps /\ ~llog[i].ok) =>
              /\ lpc \in {"wait", "exited"}
              /\ \A j \in (i + 1)..Len(llog) : llog[j].op \notin LimiterOps
    /\ LimiterFailedAt("stat") =>
          (cg.dir = <<>> /\ cg.limit = <<>> /\ cg.procs = <<>> /\ ~Did(llog, "mkdir"))
    /\ LimiterFailedAt("mkdir") =>
          (cg.dir = <<>> /\ cg.limit = <<>> /\ cg.procs = <<>>)
    /\ cg.stale => (LimiterFailedAt("mkdir") /\ cg.dir = <<>> /\ cg.limit = <<>> /\ cg.procs = <<>>)
    /\ LimiterFailedAt("writeLimit") =>
          (cg.dir = CgroupPath(childPid) /\ cg.limit = <<>> /\ cg.procs = <<>>)
    /\ LimiterFailedAt("writeProcs") =>
          (cg.dir = CgroupPath(childPid) /\ cg.limit = FormatInt(limitBytes)
             /\ cg.procs = <<>>)

C17_Witness ==
    /\ LimiterFailedAt("writeProcs")
    /\ cg.dir # <<>> /\ cg.limit # <<>>
    /\ lpc = "exited"

(***************************************************************************)
(* C18.  The memory limit is not applied atomically with the start of the  *)
(* child: the launcher parses the limit and touches the cgroup only after  *)
(* the child exists, and the child can have run initializer steps, have    *)
(* replaced its image and even have terminated while its pid is not yet in *)
(* the membership file (the witness is such a state).                      *)
(***************************************************************************)
C18_LimitAfterStart ==
    mode = "run" =>
        /\ \A i \in 1..Len(llog) :
              llog[i].op \in LimitOps => Before(llog, Op("start", TRUE), i)
        /\ lpc \in {"memCheck", "parse", "stat", "mkdir", "writeLimit", "writeProcs"}
              => (childPid # NoPid /\ ipc # "none")
        /\ (parsed # NotParsed \/ cg # CgInit) => childPid # NoPid
        /\ cg.procs # <<>> => cg.procs = Itoa(childPid)

C18_Witness ==
    /\ mode = "run"
    /\ lpc = "writeProcs" /\ cg.limit # <<>> /\ cg.procs = <<>>
    /\ ns.image # <<>>
    /\ ipc = "dead" /\ istatus.kind = "exited"

(***************************************************************************)
(* C19.  When the pivot sequence has returned success the retained         *)
(* subdirectory is gone and the old root is no longer mounted on it; when  *)
(* it fails after creating the subdirectory, the subdirectory is left.     *)
(***************************************************************************)
C19_PutOldAfterPivot ==
    /\ Has(ilog, Op("removePutOld", TRUE)) => (~ns.putOld /\ ~ns.oldMounted)
    /\ (Has(ilog, Op("mkdirPutOld", TRUE))
          /\ \E i \in 1..Len(ilog) : IsPivotOp(ilog[i]) /\ ~ilog[i].ok)
         => ns.putOld
    /\ ns.oldMounted => (ns.putOld /\ ns.pivoted)

C19_Witness ==
    /\ Has(ilog, Op("removePutOld", TRUE))
    /\ ns.pivoted /\ ns.cwd = "new"
    /\ ~ns.putOld

(***************************************************************************)
(* C20.  Every value the launcher writes to the limit file is a positive   *)
(* byte count.                                                             *)
(* Violated: the parser accepts "-1k" and "0", and the launcher writes     *)
(* -1024 and 0 without looking at the sign.                                *)
(***************************************************************************)
C20_LimitWrittenPositive ==
    cg.limit # <<>> =>
        /\ cg.limit[1] # "-"
        /\ cg.limit # <<"0">>
        /\ ~limitBytes.neg /\ limitBytes.mag # <<>>

====
